---------------------------- MODULE Spec2Model ----------------------------
(***************************************************************************)
(* Extract-and-load pipelines of dbt_airflow_data_project.                 *)
(*                                                                         *)
(* Two pipelines (GitHub repositories, PyPI packages) fetch one record per *)
(* catalog entity over HTTP and land the batch in a Snowflake raw table    *)
(* through a temporary table.  Every HTTP call and every warehouse call is *)
(* one step; its outcome (status, body shape, exception) is chosen by the  *)
(* environment.                                                            *)
(***************************************************************************)
EXTENDS Integers, Sequences, FiniteSets, TLC

(***************************************************************************)
(* Bounds of the model.                                                    *)
(***************************************************************************)
\* number of catalog entities a run iterates over (the code lists 10)
CatalogLen == 2
\* longest batch handed directly to save_to_snowflake
MaxBatch == 3
\* runs of one pipeline that follow each other
MaxRuns == 2

(***************************************************************************)
(* Program constants.                                                      *)
(***************************************************************************)
\* time.sleep(60) after a 403 on the primary call
Cooldown == 60
\* time.sleep(1) after every entity
Pacing == 1

Pipelines == {"github", "pypi"}

\* self.repositories
Repositories ==
    << "apache/airflow", "dbt-labs/dbt-core", "apache/spark",
       "pandas-dev/pandas", "sqlalchemy/sqlalchemy",
       "great-expectations/great_expectations", "prefecthq/prefect",
       "apache/kafka", "snowflakedb/snowflake-connector-python",
       "duckdb/duckdb" >>

\* self.packages
Packages ==
    << "apache-airflow", "dbt-core", "pyspark", "pandas", "sqlalchemy",
       "great-expectations", "prefect", "kafka-python",
       "snowflake-connector-python", "duckdb" >>

\* the catalog a pipeline iterates over, cut to the model's bound
Catalog(p) ==
    IF p = "github" THEN SubSeq(Repositories, 1, CatalogLen)
                    ELSE SubSeq(Packages, 1, CatalogLen)

(***************************************************************************)
(* Records.                                                                *)
(***************************************************************************)
\* keys of the dict get_repo_data builds
GitHubFields ==
    { "repo_name", "full_name", "description", "language", "stars", "forks",
      "watchers", "open_issues", "size", "created_at", "updated_at",
      "pushed_at", "default_branch", "contributors_count", "releases_count",
      "latest_release", "topics", "license", "extracted_at" }

\* keys of the dict get_package_info builds, without **download_stats
PyPIBaseFields ==
    { "package_name", "version", "summary", "description_content_type",
      "home_page", "author", "author_email", "maintainer", "license",
      "keywords", "classifiers", "requires_dist", "requires_python",
      "project_urls", "release_count", "latest_release_info",
      "extracted_at" }

\* keys of download_stats when the statistics call answered 200
DownloadFields ==
    { "downloads_last_day", "downloads_last_week", "downloads_last_month" }

\* the key that names the entity in a record of pipeline p
NameField(p) == IF p = "github" THEN "repo_name" ELSE "package_name"

\* the fetcher's "absent" result and an empty mapping: both falsy in Python
None == [ name |-> "None", fields |-> {}, extracted_at |-> 0, val |-> "list",
          contributors_count |-> 0, releases_count |-> 0,
          latest_release |-> "None" ]

\* `if repo_data:` : a dict is truthy iff it has a key
Truthy(r) == r.fields # {}

(***************************************************************************)
(* json.dumps / json.loads on the kinds of value a record can hold.        *)
(*   list  : JSON-native content (what response.json() yields)             *)
(*   tuple : serialised as an array, parsed back as a list                 *)
(*   set   : json.dumps raises TypeError                                   *)
(*   cycle : json.dumps raises ValueError (circular reference)             *)
(***************************************************************************)
PyValues == {"list", "tuple", "set", "cycle"}

json_dumps(v) ==
    CASE v = "list"  -> "[]"
      [] v = "tuple" -> "[]"
      [] v = "set"   -> "TypeError"
      [] v = "cycle" -> "ValueError"

json_loads(t) ==
    CASE t = "[]" -> "list"
      [] OTHER    -> "ValueError"

(***************************************************************************)
(* HTTP responses.  requests follows redirects, so the final status of a   *)
(* call is 200 or an error status; the body is read only on the paths      *)
(* where the code calls response.json().                                   *)
(***************************************************************************)
Statuses == {200, 403, 404, 500}
Bodies == {"object", "array", "empty_array", "number", "malformed"}

\* requests.get raised (connection error, timeout)
NetworkError == [exc |-> TRUE, status |-> 0, body |-> "malformed"]

Responses ==
    {NetworkError}
    \cup { [exc |-> FALSE, status |-> s, body |-> "malformed"] :
             s \in Statuses \ {200} }
    \cup { [exc |-> FALSE, status |-> 200, body |-> b] : b \in Bodies }

\* response.raise_for_status(): HTTPError for 4xx and 5xx
RaisesForStatus(s) == s >= 400 /\ s < 600

\* len(response.json()) of a body that parsed
BodyLen(b) ==
    CASE b = "array"       -> 1
      [] b = "object"      -> 1
      [] b = "empty_array" -> 0

VARIABLES
    pc,             \* pc[p]: where pipeline p stands
    github_token,   \* GitHubExtractor.github_token is set (truthy)
    idx,            \* idx[p]: position of the driver loop in the catalog
    extracted_data, \* extracted_data[p]: the batch the driver builds
    fetched,        \* fetched[p]: entities the Fetcher was invoked for
    primary_calls,  \* primary_calls[p]: primary GETs of the current fetch
    cooled,         \* cooled[p]: cooldown sleeps of the current fetch
    primary_body,   \* primary_body[p]: repo_data / package_data (its shape)
    contributors_count, \* contributors_count[p] of the current fetch
    fetch_result,   \* fetch_result[p]: what the Fetcher returned
    sleeps,         \* sleeps[p]: durations slept so far in the run
    http_log,       \* http_log[p]: calls and responses of the current fetch
    clock,          \* wall clock, advanced by every datetime.now()
    data,           \* data[p]: argument of save_to_snowflake
    conn,           \* conn[p]: "none" | "open" | "closed" | "close_failed"
    cursor,         \* cursor[p]: "unbound" | "open" | "closed"
    temp,           \* temp[p]: the session's temporary table
    insert_data,    \* insert_data[p]: tuples prepared for executemany
    txn,            \* txn[p]: rows promoted but not yet committed
    perm,           \* perm[t]: committed rows of permanent table t
    autocommit,     \* session AUTOCOMMIT parameter of the warehouse
    exc,            \* exc[p]: an exception is leaving save_to_snowflake
    calls,          \* calls[p]: warehouse calls of the current load
    ret,            \* ret[p]: value save_to_snowflake returned
    perm_before,    \* perm_before[p]: p's permanent table when its load was entered
    invocations,    \* invocations[p]: calls of save_to_snowflake so far
    run_log,        \* run_log[p]: per entity of the run, the error status
                    \* (4xx/5xx) of its first primary response, 0 when it
                    \* had none, and whether the Fetcher returned a record
    task_state,     \* task_state[t]: state of orchestrator task t in the
                    \* DAG run, for the tasks after the extraction tasks
    counted         \* counted[p]: the same-day row count validate_raw_data
                    \* read for pipeline p (<< >> before it did)

fetchVars == << idx, extracted_data, fetched, primary_calls, cooled,
                primary_body, contributors_count, fetch_result, sleeps,
                http_log, run_log >>
loadVars == << data, conn, cursor, temp, insert_data, txn, perm, exc, calls,
               ret, perm_before, invocations >>
dagVars == << task_state, counted >>
vars == << pc, github_token, fetchVars, clock, loadVars, autocommit, dagVars >>


\* the tasks of the DAG after the two extraction tasks, in the order of
\* their dependencies: each is downstream of the one before it, the first
\* of both extraction tasks
DownstreamTasks ==
    << "validate_raw_data", "check_dbt_models", "dbt_deps",
       "run_staging_models", "run_mart_models", "run_dbt_tests",
       "generate_dbt_docs", "end_pipeline" >>

(***************************************************************************)
(* Initial states.                                                         *)
(***************************************************************************)
\* mutant: both pipelines promote into the same permanent table
PermanentTable_Shared(p) == "GITHUB_REPOS"

\* INSERT INTO DATA_ENGINEERING_PROJECT.RAW_DATA.<table>: the permanent
\* table a pipeline promotes into
PermanentTable(p) == IF p = "github" THEN "GITHUB_REPOS" ELSE "PYPI_PACKAGES"

\* the permanent tables of the warehouse
Tables == { PermanentTable(p) : p \in Pipelines }

\* the committed rows of the permanent table of pipeline p
Perm(p) == perm[PermanentTable(p)]

\* no row of an earlier run in either permanent table
NoRows == [t \in Tables |-> << >>]

\* no row of any pipeline
NoRowsOf == [p \in Pipelines |-> << >>]

\* everything but pc and data: extractors not yet constructed
InitRest ==
    /\ github_token = FALSE
    /\ idx = [p \in Pipelines |-> 0]
    /\ extracted_data = [p \in Pipelines |-> << >>]
    /\ fetched = [p \in Pipelines |-> << >>]
    /\ primary_calls = [p \in Pipelines |-> 0]
    /\ cooled = [p \in Pipelines |-> 0]
    /\ primary_body = [p \in Pipelines |-> "unset"]
    /\ contributors_count = [p \in Pipelines |-> 0]
    /\ fetch_result = [p \in Pipelines |-> None]
    /\ sleeps = [p \in Pipelines |-> << >>]
    /\ http_log = [p \in Pipelines |-> << >>]
    /\ run_log = [p \in Pipelines |-> << >>]
    /\ invocations = [p \in Pipelines |-> 0]
    /\ clock = 0
    /\ conn = [p \in Pipelines |-> "none"]
    /\ cursor = [p \in Pipelines |-> "unbound"]
    /\ temp = [p \in Pipelines |-> [exists |-> FALSE, rows |-> << >>]]
    /\ insert_data = [p \in Pipelines |-> << >>]
    /\ txn = [p \in Pipelines |-> << >>]
    /\ exc = [p \in Pipelines |-> FALSE]
    /\ calls = [p \in Pipelines |-> << >>]
    /\ ret = [p \in Pipelines |-> << >>]
    /\ autocommit \in BOOLEAN
    /\ task_state = [t \in DOMAIN DownstreamTasks |-> "none"]
    /\ counted = << >>

\* a row an earlier run left in the permanent table of pipeline p
OldRow(p) ==
    [ extracted_at |-> 0,
      name |-> IF p = "github" THEN Repositories[1] ELSE Packages[1],
      raw_data |-> [ name |-> IF p = "github" THEN Repositories[1]
                                               ELSE Packages[1],
                     fields |-> IF p = "github" THEN GitHubFields
                                                ELSE PyPIBaseFields,
                     extracted_at |-> 0, val |-> "list",
                     contributors_count |-> 0, releases_count |-> 0,
                     latest_release |-> "None" ] ]

\* the permanent tables before a direct load: empty, or one earlier row each
InitialTables ==
    { NoRows,
      [t \in Tables |-> << OldRow(CHOOSE p \in Pipelines : PermanentTable(p) = t) >>] }

\* one pipeline is about to be run as an orchestrator task (or as __main__)
Init ==
    /\ \E p \in Pipelines :
         pc = [q \in Pipelines |-> IF q = p THEN "task" ELSE "off"]
    /\ data = [p \in Pipelines |-> << >>]
    /\ perm = NoRows
    /\ perm_before = NoRowsOf
    /\ InitRest

\* what a caller may put at position i of the list handed to
\* save_to_snowflake of pipeline p: a falsy element, or a mapping with the
\* entity's name whose content is any kind of Python value
ArbitraryRecords(p, i) ==
    {None} \cup
    { [ name |-> IF p = "github" THEN Repositories[i] ELSE Packages[i],
        fields |-> IF p = "github" THEN GitHubFields
                                   ELSE PyPIBaseFields \cup DownloadFields,
        extracted_at |-> 0, val |-> v, contributors_count |-> 0,
        releases_count |-> 0, latest_release |-> "None" ] : v \in PyValues }

\* the lists of at most MaxBatch elements a caller may hand over
Batches(p) ==
    UNION { { b \in [1..n -> UNION { ArbitraryRecords(p, i) : i \in 1..n }] :
                \A i \in 1..n : b[i] \in ArbitraryRecords(p, i) } :
            n \in 0..MaxBatch }

\* save_to_snowflake of one pipeline is called directly with any list
LoadInit ==
    /\ \E p \in Pipelines :
         /\ pc = [q \in Pipelines |-> IF q = p THEN "save" ELSE "off"]
         /\ \E b \in Batches(p) :
              data = [q \in Pipelines |-> IF q = p THEN b ELSE << >>]
    /\ perm \in InitialTables
    /\ perm_before = [p \in Pipelines |-> Perm(p)]
    /\ InitRest

(***************************************************************************)
(* Orchestrator task callable and Run Controller, first half.              *)
(***************************************************************************)
\* mutant: the loop stops after the first entity
NextEntity_FirstOnly(p, i) ==
    IF i <= 1
    THEN /\ pc' = [pc EXCEPT ![p] = "primary"]
         /\ fetched' = [fetched EXCEPT ![p] = Append(@, Catalog(p)[i])]
    ELSE /\ pc' = [pc EXCEPT ![p] = "extracted"]
         /\ UNCHANGED fetched

\* the loop `for repo in self.repositories` takes its next entity, or ends
NextEntity(p, i) ==
    IF i <= Len(Catalog(p))
    THEN /\ pc' = [pc EXCEPT ![p] = "primary"]
         /\ fetched' = [fetched EXCEPT ![p] = Append(@, Catalog(p)[i])]
    ELSE /\ pc' = [pc EXCEPT ![p] = "extracted"]
         /\ UNCHANGED fetched

\* extract_github_data / extract_pypi_data: construct the extractor (which
\* reads GITHUB_TOKEN) and call run()
task_start(p) ==
    /\ pc[p] = "task"
    /\ pc' = [pc EXCEPT ![p] = "run"]
    /\ IF p = "github"
       THEN \E t \in BOOLEAN : github_token' = t
       ELSE UNCHANGED github_token
    /\ UNCHANGED << fetchVars, clock, loadVars, autocommit, dagVars >>

\* mutant: the token check is missing
TokenMissing_Never(p) == FALSE

\* run() raises ValueError when the GitHub token is missing
TokenMissing(p) == p = "github" /\ ~github_token

\* run(): token check, then entry of extract_all_repositories /
\* extract_all_packages
run_start(p) ==
    /\ pc[p] = "run"
    /\ IF TokenMissing(p)
       THEN /\ pc' = [pc EXCEPT ![p] = "task_failed"]
            /\ UNCHANGED fetchVars
       ELSE /\ idx' = [idx EXCEPT ![p] = 1]
            /\ extracted_data' = [extracted_data EXCEPT ![p] = << >>]
            /\ NextEntity(p, 1)
            /\ UNCHANGED << primary_calls, cooled, primary_body,
                            contributors_count, fetch_result, sleeps,
                            http_log, run_log >>
    /\ UNCHANGED << github_token, clock, loadVars, autocommit, dagVars >>

(***************************************************************************)
(* Fetcher, GitHub: get_repo_data.                                         *)
(***************************************************************************)
\* mutant: the exception is not caught and ends the driver loop
FetchFails_Propagates(p) ==
    /\ fetch_result' = [fetch_result EXCEPT ![p] = None]
    /\ pc' = [pc EXCEPT ![p] = "task_failed"]

\* except RequestException / except Exception: log, return None
FetchFails(p) ==
    /\ fetch_result' = [fetch_result EXCEPT ![p] = None]
    /\ pc' = [pc EXCEPT ![p] = "pace"]

\* response.raise_for_status(); repo_data = response.json()
AfterPrimary(p, resp) ==
    IF RaisesForStatus(resp.status) \/ resp.body = "malformed"
    THEN /\ FetchFails(p)
         /\ UNCHANGED primary_body
    ELSE /\ primary_body' = [primary_body EXCEPT ![p] = resp.body]
         /\ pc' = [pc EXCEPT ![p] = "secondary"]
         /\ UNCHANGED fetch_result

\* mutant: every error status is taken for a rate limit
RateLimited_AnyError(resp) == resp.status >= 400

\* the status on which the GitHub fetcher sleeps and retries
RateLimited(resp) == resp.status = 403

\* requests.get returned `resp` (or raised, when resp.exc)
Logged(p, call, resp) ==
    http_log' = [http_log EXCEPT ![p] = Append(@, [call |-> call, resp |-> resp])]

\* first requests.get(repo_url)
get_repo_data_primary(resp) ==
    /\ pc["github"] = "primary"
    /\ Logged("github", "primary", resp)
    /\ primary_calls' = [primary_calls EXCEPT !["github"] = @ + 1]
    /\ IF resp.exc
       THEN FetchFails("github") /\ UNCHANGED primary_body
       ELSE IF RateLimited(resp)
       THEN /\ pc' = [pc EXCEPT !["github"] = "cooldown"]
            /\ UNCHANGED << fetch_result, primary_body >>
       ELSE AfterPrimary("github", resp)
    /\ UNCHANGED << idx, extracted_data, fetched, run_log, cooled, contributors_count,
                    sleeps, github_token, clock, loadVars, autocommit, dagVars >>

\* time.sleep(60)
get_repo_data_cooldown ==
    /\ pc["github"] = "cooldown"
    /\ cooled' = [cooled EXCEPT !["github"] = @ + 1]
    /\ sleeps' = [sleeps EXCEPT !["github"] = Append(@, Cooldown)]
    /\ pc' = [pc EXCEPT !["github"] = "retry"]
    /\ UNCHANGED << idx, extracted_data, fetched, run_log, primary_calls, primary_body,
                    contributors_count, fetch_result, http_log, github_token,
                    clock, loadVars, autocommit, dagVars >>

\* mutant: `while response.status_code == 403`, the retried call cools
\* down and retries again
get_repo_data_retry_Loops(resp) ==
    /\ pc["github"] = "retry"
    /\ Logged("github", "primary", resp)
    /\ primary_calls' = [primary_calls EXCEPT !["github"] = @ + 1]
    /\ IF resp.exc
       THEN FetchFails("github") /\ UNCHANGED primary_body
       ELSE IF RateLimited(resp)
       THEN /\ pc' = [pc EXCEPT !["github"] = "cooldown"]
            /\ UNCHANGED << fetch_result, primary_body >>
       ELSE AfterPrimary("github", resp)
    /\ UNCHANGED << idx, extracted_data, fetched, run_log, cooled,
                    contributors_count, sleeps, github_token, clock, loadVars,
                    autocommit, dagVars >>

\* second requests.get(repo_url), after the cooldown
get_repo_data_retry(resp) ==
    /\ pc["github"] = "retry"
    /\ Logged("github", "primary", resp)
    /\ primary_calls' = [primary_calls EXCEPT !["github"] = @ + 1]
    /\ IF resp.exc
       THEN FetchFails("github") /\ UNCHANGED primary_body
       ELSE AfterPrimary("github", resp)
    /\ UNCHANGED << idx, extracted_data, fetched, run_log, cooled, contributors_count,
                    sleeps, github_token, clock, loadVars, autocommit, dagVars >>

\* a secondary response.json() or len() of it raises (caught by the outer
\* except): the call raised, or answered 200 with a body that does not
\* parse or has no len()
ContributorsRaises(resp) ==
    \/ resp.exc
    \/ resp.status = 200 /\ resp.body \in {"malformed", "number"}

\* mutant: the default of a failed contributors call is not zero
ContributorsCount_NoDefault(resp) ==
    IF resp.status = 200 THEN BodyLen(resp.body) ELSE 1

\* len(contributors_response.json()) if status_code == 200 else 0
ContributorsCount(resp) ==
    IF resp.status = 200 THEN BodyLen(resp.body) ELSE 0

\* requests.get(contributors_url)
get_repo_data_contributors(resp) ==
    /\ pc["github"] = "secondary"
    /\ Logged("github", "contributors", resp)
    /\ IF ContributorsRaises(resp)
       THEN FetchFails("github") /\ UNCHANGED contributors_count
       ELSE /\ contributors_count' =
                 [contributors_count EXCEPT !["github"] = ContributorsCount(resp)]
            /\ pc' = [pc EXCEPT !["github"] = "releases"]
            /\ UNCHANGED fetch_result
    /\ UNCHANGED << idx, extracted_data, fetched, run_log, primary_calls, cooled,
                    primary_body, sleeps, github_token, clock, loadVars,
                    autocommit, dagVars >>

\* releases_response.json() if status_code == 200 else []
Releases(resp) == IF resp.status = 200 THEN resp.body ELSE "empty_array"

\* the releases call or the dict literal raises: the call raised, the body
\* does not parse, repo_data is no mapping (.get), releases has no len(),
\* or releases is a non-empty mapping (releases[0] is a KeyError)
ReleasesOrMergeRaises(body, resp) ==
    \/ resp.exc
    \/ resp.status = 200 /\ resp.body = "malformed"
    \/ body # "object"
    \/ Releases(resp) \in {"number", "object"}

\* the dict literal of get_repo_data, stamped with datetime.now()
GitHubRecord(name, ccount, releases, now) ==
    [ name |-> name, fields |-> GitHubFields, extracted_at |-> now,
      val |-> "list", contributors_count |-> ccount,
      releases_count |-> BodyLen(releases),
      latest_release |-> IF releases = "array" THEN "release" ELSE "None" ]

\* requests.get(releases_url), then the merge into extracted_data
get_repo_data_releases(resp) ==
    /\ pc["github"] = "releases"
    /\ Logged("github", "releases", resp)
    /\ IF ReleasesOrMergeRaises(primary_body["github"], resp)
       THEN FetchFails("github") /\ UNCHANGED clock
       ELSE /\ clock' = clock + 1
            /\ fetch_result' = [fetch_result EXCEPT !["github"] =
                 GitHubRecord(Catalog("github")[idx["github"]],
                              contributors_count["github"], Releases(resp),
                              clock')]
            /\ pc' = [pc EXCEPT !["github"] = "pace"]
    /\ UNCHANGED << idx, extracted_data, fetched, run_log, primary_calls, cooled,
                    primary_body, contributors_count, sleeps, github_token,
                    loadVars, autocommit, dagVars >>

(***************************************************************************)
(* Fetcher, PyPI: get_package_info.                                        *)
(***************************************************************************)
\* mutant: a first 403 makes the PyPI fetcher repeat its primary call
get_package_info_primary_Retries(resp) ==
    /\ pc["pypi"] = "primary"
    /\ Logged("pypi", "primary", resp)
    /\ primary_calls' = [primary_calls EXCEPT !["pypi"] = @ + 1]
    /\ IF resp.exc
       THEN FetchFails("pypi") /\ UNCHANGED primary_body
       ELSE IF RateLimited(resp) /\ primary_calls["pypi"] = 0
       THEN UNCHANGED << pc, fetch_result, primary_body >>
       ELSE AfterPrimary("pypi", resp)
    /\ UNCHANGED << idx, extracted_data, fetched, run_log, cooled,
                    contributors_count, sleeps, github_token, clock, loadVars,
                    autocommit, dagVars >>

\* requests.get(package_url); raise_for_status(); response.json()
get_package_info_primary(resp) ==
    /\ pc["pypi"] = "primary"
    /\ Logged("pypi", "primary", resp)
    /\ primary_calls' = [primary_calls EXCEPT !["pypi"] = @ + 1]
    /\ IF resp.exc
       THEN FetchFails("pypi") /\ UNCHANGED primary_body
       ELSE AfterPrimary("pypi", resp)
    /\ UNCHANGED << idx, extracted_data, fetched, run_log, cooled, contributors_count,
                    sleeps, github_token, clock, loadVars, autocommit, dagVars >>

\* the statistics call or the merge raises: the call raised, the 200 body
\* does not parse or is no mapping (stats_data.get), or package_data is no
\* mapping (package_data.get)
StatsOrMergeRaises(body, resp) ==
    \/ resp.exc
    \/ resp.status = 200 /\ resp.body # "object"
    \/ body # "object"

\* download_stats: {} unless the statistics call answered 200
DownloadStats(resp) == IF resp.status = 200 THEN DownloadFields ELSE {}

\* the dict literal of get_package_info, stamped with datetime.now()
PyPIRecord(name, download_stats, now) ==
    [ name |-> name, fields |-> PyPIBaseFields \cup download_stats,
      extracted_at |-> now, val |-> "list", contributors_count |-> 0,
      releases_count |-> 0, latest_release |-> "None" ]

\* requests.get(stats_url), then the merge into extracted_data
get_package_info_stats(resp) ==
    /\ pc["pypi"] = "secondary"
    /\ Logged("pypi", "stats", resp)
    /\ IF StatsOrMergeRaises(primary_body["pypi"], resp)
       THEN FetchFails("pypi") /\ UNCHANGED clock
       ELSE /\ clock' = clock + 1
            /\ fetch_result' = [fetch_result EXCEPT !["pypi"] =
                 PyPIRecord(Catalog("pypi")[idx["pypi"]], DownloadStats(resp),
                            clock')]
            /\ pc' = [pc EXCEPT !["pypi"] = "pace"]
    /\ UNCHANGED << idx, extracted_data, fetched, run_log, primary_calls, cooled,
                    primary_body, contributors_count, sleeps, github_token,
                    loadVars, autocommit, dagVars >>

(***************************************************************************)
(* Extraction Driver: extract_all_repositories / extract_all_packages.     *)
(***************************************************************************)
\* mutant: the record is put at the head of the batch (insert(0, ...))
Collected_AtHead(batch, r) == IF Truthy(r) THEN << r >> \o batch ELSE batch

\* mutant: the result is appended without the `if repo_data` test
Collected_KeepsNone(batch, r) == Append(batch, r)

\* `if repo_data: extracted_data.append(repo_data)`
Collected(batch, r) == IF Truthy(r) THEN Append(batch, r) ELSE batch

\* mutant: the pacing sleep is taken only after a successful fetch
PacedSleeps_OnSuccess(s, r) == IF Truthy(r) THEN Append(s, Pacing) ELSE s

\* time.sleep(1), after the `if repo_data` block: r is what the Fetcher
\* returned
PacedSleeps(s, r) == Append(s, Pacing)

\* rest of the loop body after the Fetcher returned: append, time.sleep(1),
\* next iteration
extract_all_pace(p) ==
    /\ pc[p] = "pace"
    /\ extracted_data' =
         [extracted_data EXCEPT ![p] = Collected(@, fetch_result[p])]
    /\ sleeps' = [sleeps EXCEPT ![p] = PacedSleeps(@, fetch_result[p])]
    /\ run_log' = [run_log EXCEPT ![p] =
         Append(@, [ entity |-> Catalog(p)[idx[p]],
                     first |-> IF RaisesForStatus(http_log[p][1].resp.status)
                               THEN http_log[p][1].resp.status ELSE 0,
                     returned |-> Truthy(fetch_result[p]) ])]
    /\ idx' = [idx EXCEPT ![p] = @ + 1]
    /\ primary_calls' = [primary_calls EXCEPT ![p] = 0]
    /\ cooled' = [cooled EXCEPT ![p] = 0]
    /\ primary_body' = [primary_body EXCEPT ![p] = "unset"]
    /\ contributors_count' = [contributors_count EXCEPT ![p] = 0]
    /\ http_log' = [http_log EXCEPT ![p] = << >>]
    /\ NextEntity(p, idx[p] + 1)
    /\ UNCHANGED << fetch_result, github_token, clock, loadVars, autocommit, dagVars >>

(***************************************************************************)
(* Run Controller, second half.                                            *)
(***************************************************************************)
\* mutant: run() calls save_to_snowflake without testing the batch
HasData_Always(d) == TRUE

\* `if data:` in run()
HasData(d) == d # << >>

\* run(): `if data: self.save_to_snowflake(data)` else log a warning
run_after_extract(p) ==
    /\ pc[p] = "extracted"
    /\ IF HasData(extracted_data[p])
       THEN /\ data' = [data EXCEPT ![p] = extracted_data[p]]
            /\ pc' = [pc EXCEPT ![p] = "save"]
       ELSE /\ pc' = [pc EXCEPT ![p] = "task_ok"]
            /\ UNCHANGED data
    /\ UNCHANGED << github_token, fetchVars, clock, conn, cursor, temp,
                    insert_data, txn, perm, exc, calls, ret, perm_before, invocations,
                    autocommit, dagVars >>

\* mutant: run() logs the error and does not re-raise
TaskOutcome_Swallows(e) == "task_ok"

\* how the task ends when save_to_snowflake raised (e) or returned: run()
\* logs and re-raises, and the task callable has no handler of its own
TaskOutcome(e) == IF e THEN "task_failed" ELSE "task_ok"

\* run() after save_to_snowflake: the success log line, or the except clause
run_after_save(p) ==
    /\ pc[p] = "save_done"
    /\ pc' = [pc EXCEPT ![p] = TaskOutcome(exc[p])]
    /\ UNCHANGED << github_token, fetchVars, clock, loadVars, autocommit, dagVars >>

(***************************************************************************)
(* Loader: save_to_snowflake.                                              *)
(***************************************************************************)
\* a bare `return`: the function returns None, written << >>; a returned
\* number n would be << n >>
ReturnNone == << >>

\* mutant: the empty check is missing
NoData_Never(d) == FALSE

\* `if not data`
NoData(d) == d = << >>

\* entry: `if not data: return`, then conn = None and the try block
save_to_snowflake_entry(p) ==
    /\ pc[p] = "save"
    /\ perm_before' = [perm_before EXCEPT ![p] = Perm(p)]
    /\ invocations' = [invocations EXCEPT ![p] = @ + 1]
    /\ calls' = [calls EXCEPT ![p] = << >>]
    /\ conn' = [conn EXCEPT ![p] = "none"]
    /\ cursor' = [cursor EXCEPT ![p] = "unbound"]
    /\ temp' = [temp EXCEPT ![p] = [exists |-> FALSE, rows |-> << >>]]
    /\ insert_data' = [insert_data EXCEPT ![p] = << >>]
    /\ txn' = [txn EXCEPT ![p] = << >>]
    /\ exc' = [exc EXCEPT ![p] = FALSE]
    /\ ret' = [ret EXCEPT ![p] = ReturnNone]
    /\ pc' = [pc EXCEPT ![p] = IF NoData(data[p]) THEN "save_done" ELSE "connect"]
    /\ UNCHANGED << github_token, fetchVars, clock, data, perm, autocommit, dagVars >>

\* a warehouse call is issued and returns (ok) or raises
Called(p, op, ok) ==
    calls' = [calls EXCEPT ![p] = Append(@, [op |-> op, ok |-> ok])]

\* mutant: no except clause, a raising statement goes straight to
\* `finally`
Raised_NoRollback(p) == pc' = [pc EXCEPT ![p] = "finally"]

\* a statement of the try block raised: control goes to `except Exception`
Raised(p) == pc' = [pc EXCEPT ![p] = "except"]

\* conn = self.get_snowflake_connection()
save_connect(p, ok) ==
    /\ pc[p] = "connect"
    /\ Called(p, "connect", ok)
    /\ IF ok
       THEN /\ conn' = [conn EXCEPT ![p] = "open"]
            /\ pc' = [pc EXCEPT ![p] = "cursor"]
       ELSE Raised(p) /\ UNCHANGED conn
    /\ UNCHANGED << github_token, fetchVars, clock, data, cursor, temp,
                    insert_data, txn, perm, exc, ret, perm_before, invocations,
                    autocommit, dagVars >>

\* cursor = conn.cursor()
save_cursor(p, ok) ==
    /\ pc[p] = "cursor"
    /\ Called(p, "cursor", ok)
    /\ IF ok
       THEN /\ cursor' = [cursor EXCEPT ![p] = "open"]
            /\ pc' = [pc EXCEPT ![p] = "use_schema"]
       ELSE Raised(p) /\ UNCHANGED cursor
    /\ UNCHANGED << github_token, fetchVars, clock, data, conn, temp,
                    insert_data, txn, perm, exc, ret, perm_before, invocations,
                    autocommit, dagVars >>

\* cursor.execute("USE SCHEMA ...")
save_use_schema(p, ok) ==
    /\ pc[p] = "use_schema"
    /\ Called(p, "use_schema", ok)
    /\ IF ok THEN pc' = [pc EXCEPT ![p] = "create_temp"] ELSE Raised(p)
    /\ UNCHANGED << github_token, fetchVars, clock, data, conn, cursor, temp,
                    insert_data, txn, perm, exc, ret, perm_before, invocations,
                    autocommit, dagVars >>

\* cursor.execute("CREATE TEMPORARY TABLE ...")
save_create_temp(p, ok) ==
    /\ pc[p] = "create_temp"
    /\ Called(p, "create_temp", ok)
    /\ IF ok
       THEN /\ temp' = [temp EXCEPT ![p] = [exists |-> TRUE, rows |-> << >>]]
            /\ pc' = [pc EXCEPT ![p] = "serialize"]
       ELSE Raised(p) /\ UNCHANGED temp
    /\ UNCHANGED << github_token, fetchVars, clock, data, conn, cursor,
                    insert_data, txn, perm, exc, ret, perm_before, invocations,
                    autocommit, dagVars >>

\* json.dumps of a record: its values serialised (an error name when
\* json.dumps raises)
dumps_record(r) == [r EXCEPT !.val = json_dumps(r.val)]

\* json.loads / PARSE_JSON of a serialised record
loads_record(t) == [t EXCEPT !.val = json_loads(t.val)]

\* mutant: the try/except around json.dumps and json.loads is missing and
\* no record is ever skipped
SerializationFails_Never(r) == FALSE

\* json.dumps(repo_data) or json.loads(json_str) raises TypeError/ValueError
SerializationFails(r) ==
    \/ json_dumps(r.val) \in {"TypeError", "ValueError"}
    \/ json_loads(json_dumps(r.val)) = "ValueError"

\* mutant: `break` instead of `continue` on a record that fails
Survivors_Break(batch) ==
    LET bad == { i \in 1..Len(batch) :
                   Truthy(batch[i]) /\ SerializationFails(batch[i]) }
        stop == IF bad = {} THEN Len(batch) + 1
                ELSE CHOOSE i \in bad : \A j \in bad : i <= j
    IN  SelectSeq(SubSeq(batch, 1, stop - 1), Truthy)

\* the records the loop keeps: truthy and serialisable, in batch order
Survivors(batch) ==
    SelectSeq(batch, LAMBDA r : Truthy(r) /\ ~SerializationFails(r))

\* repo_data.get('repo_name')
KeyOf(p, r) == IF NameField(p) \in r.fields THEN r.name ELSE "None"

\* mutant: the loop stages every record, also one whose serialisation
\* raised
StagedRows_Unfiltered(p, batch, now) ==
    [ i \in 1..Len(SelectSeq(batch, Truthy)) |->
        [ extracted_at |-> now + i,
          name |-> KeyOf(p, SelectSeq(batch, Truthy)[i]),
          raw_data |-> dumps_record(SelectSeq(batch, Truthy)[i]) ] ]

\* insert_data as the loop builds it: (datetime.now(), name, json_str) per
\* kept record; the clock stands at `now` when the loop starts
StagedRows(p, batch, now) ==
    [ i \in 1..Len(Survivors(batch)) |->
        [ extracted_at |-> now + i,
          name |-> KeyOf(p, Survivors(batch)[i]),
          raw_data |-> dumps_record(Survivors(batch)[i]) ] ]

\* the serialise-and-filter loop, and `if not insert_data: return`
save_serialize(p) ==
    /\ pc[p] = "serialize"
    /\ insert_data' = [insert_data EXCEPT ![p] = StagedRows(p, data[p], clock)]
    /\ clock' = clock + Len(insert_data'[p])
    /\ IF insert_data'[p] = << >>
       THEN /\ ret' = [ret EXCEPT ![p] = ReturnNone]
            /\ pc' = [pc EXCEPT ![p] = "finally"]
       ELSE /\ pc' = [pc EXCEPT ![p] = "executemany"]
            /\ UNCHANGED ret
    /\ UNCHANGED << github_token, fetchVars, data, conn, cursor, temp, txn,
                    perm, exc, calls, perm_before, invocations, autocommit, dagVars >>

\* cursor.executemany(temp_insert_query, insert_data)
save_executemany(p, ok) ==
    /\ pc[p] = "executemany"
    /\ Called(p, "executemany", ok)
    /\ IF ok
       THEN /\ temp' = [temp EXCEPT ![p].rows = insert_data[p]]
            /\ pc' = [pc EXCEPT ![p] = "promote"]
       ELSE Raised(p) /\ UNCHANGED temp
    /\ UNCHANGED << github_token, fetchVars, clock, data, conn, cursor,
                    insert_data, txn, perm, exc, ret, perm_before, invocations,
                    autocommit, dagVars >>

\* mutant: the promotion statement moves only the first staged row
PromotedRows_FirstOnly(rows) ==
    [ i \in 1..(IF Len(rows) > 0 THEN 1 ELSE 0) |->
        [rows[i] EXCEPT !.raw_data = loads_record(@)] ]

\* mutant: the promotion replaces the table's rows (INSERT OVERWRITE)
Appended_Overwrite(old, rows) == rows

\* INSERT INTO <permanent table> ... : the rows are added after the
\* table's own
Appended(old, rows) == old \o rows

\* SELECT extracted_at, repo_name, PARSE_JSON(raw_data) FROM ..._TEMP
PromotedRows(rows) ==
    [ i \in 1..Len(rows) |->
        [rows[i] EXCEPT !.raw_data = loads_record(@)] ]

\* cursor.execute(final_insert_query): one INSERT ... SELECT statement; the
\* warehouse applies it whole or not at all, at once under AUTOCOMMIT and
\* at commit otherwise
save_promote(p, ok) ==
    /\ pc[p] = "promote"
    /\ Called(p, "promote", ok)
    /\ IF ok
       THEN /\ IF autocommit
               THEN /\ perm' = [perm EXCEPT ![PermanentTable(p)] =
                                   Appended(@, PromotedRows(temp[p].rows))]
                    /\ UNCHANGED txn
               ELSE /\ txn' = [txn EXCEPT ![p] = PromotedRows(temp[p].rows)]
                    /\ UNCHANGED perm
            /\ pc' = [pc EXCEPT ![p] = "commit"]
       ELSE Raised(p) /\ UNCHANGED << txn, perm >>
    /\ UNCHANGED << github_token, fetchVars, clock, data, conn, cursor, temp,
                    insert_data, exc, ret, perm_before, invocations, autocommit, dagVars >>

\* conn.commit(), then the success log line and the fall through to finally
save_commit(p, ok) ==
    /\ pc[p] = "commit"
    /\ Called(p, "commit", ok)
    /\ IF ok
       THEN /\ perm' = [perm EXCEPT ![PermanentTable(p)] = Appended(@, txn[p])]
            /\ txn' = [txn EXCEPT ![p] = << >>]
            /\ ret' = [ret EXCEPT ![p] = ReturnNone]
            /\ pc' = [pc EXCEPT ![p] = "finally"]
       ELSE Raised(p) /\ UNCHANGED << txn, perm, ret >>
    /\ UNCHANGED << github_token, fetchVars, clock, data, conn, cursor, temp,
                    insert_data, exc, perm_before, invocations, autocommit, dagVars >>

\* except Exception: log; `if conn: conn.rollback()`; raise
save_except(p, ok) ==
    /\ pc[p] = "except"
    /\ IF conn[p] = "open"
       THEN /\ Called(p, "rollback", ok)
            /\ txn' = [txn EXCEPT ![p] = IF ok THEN << >> ELSE @]
       ELSE /\ ok
            /\ UNCHANGED << calls, txn >>
    /\ exc' = [exc EXCEPT ![p] = TRUE]
    /\ pc' = [pc EXCEPT ![p] = "finally"]
    /\ UNCHANGED << github_token, fetchVars, clock, data, conn, cursor, temp,
                    insert_data, perm, ret, perm_before, invocations, autocommit, dagVars >>

\* finally: `if 'cursor' in locals() and cursor: cursor.close()`; when
\* close() raises, the rest of the finally block is skipped
save_finally_cursor(p, ok) ==
    /\ pc[p] = "finally"
    /\ IF cursor[p] = "open"
       THEN /\ Called(p, "cursor_close", ok)
            /\ IF ok
               THEN /\ cursor' = [cursor EXCEPT ![p] = "closed"]
                    /\ pc' = [pc EXCEPT ![p] = "finally_conn"]
                    /\ UNCHANGED exc
               ELSE /\ exc' = [exc EXCEPT ![p] = TRUE]
                    /\ pc' = [pc EXCEPT ![p] = "save_done"]
                    /\ UNCHANGED cursor
       ELSE /\ ok
            /\ pc' = [pc EXCEPT ![p] = "finally_conn"]
            /\ UNCHANGED << calls, cursor, exc >>
    /\ UNCHANGED << github_token, fetchVars, clock, data, conn, temp,
                    insert_data, txn, perm, ret, perm_before, invocations, autocommit, dagVars >>

\* finally: `if conn: conn.close()`; closing the session rolls back what
\* it had not committed
save_finally_conn(p, ok) ==
    /\ pc[p] = "finally_conn"
    /\ IF conn[p] = "open"
       THEN /\ Called(p, "conn_close", ok)
            /\ IF ok
               THEN /\ conn' = [conn EXCEPT ![p] = "closed"]
                    /\ txn' = [txn EXCEPT ![p] = << >>]
                    /\ UNCHANGED exc
               ELSE /\ conn' = [conn EXCEPT ![p] = "close_failed"]
                    /\ exc' = [exc EXCEPT ![p] = TRUE]
                    /\ UNCHANGED txn
       ELSE /\ ok
            /\ UNCHANGED << calls, conn, txn, exc >>
    /\ pc' = [pc EXCEPT ![p] = "save_done"]
    /\ UNCHANGED << github_token, fetchVars, clock, data, cursor, temp,
                    insert_data, perm, ret, perm_before, invocations, autocommit, dagVars >>

(***************************************************************************)
(* Specifications.                                                         *)
(***************************************************************************)
\* the steps of the Loader
LoadNext ==
    \E p \in Pipelines :
       \/ save_to_snowflake_entry(p)
       \/ save_serialize(p)
       \/ \E ok \in BOOLEAN :
            \/ save_connect(p, ok)
            \/ save_cursor(p, ok)
            \/ save_use_schema(p, ok)
            \/ save_create_temp(p, ok)
            \/ save_executemany(p, ok)
            \/ save_promote(p, ok)
            \/ save_commit(p, ok)
            \/ save_except(p, ok)
            \/ save_finally_cursor(p, ok)
            \/ save_finally_conn(p, ok)

\* the steps of the Fetchers
FetchNext ==
    \E resp \in Responses :
       \/ get_repo_data_primary(resp)
       \/ get_repo_data_retry(resp)
       \/ get_repo_data_contributors(resp)
       \/ get_repo_data_releases(resp)
       \/ get_package_info_primary(resp)
       \/ get_package_info_stats(resp)

\* the steps of the task callable, the Run Controller and the driver
RunNext ==
    \/ get_repo_data_cooldown
    \/ \E p \in Pipelines :
          \/ task_start(p)
          \/ run_start(p)
          \/ extract_all_pace(p)
          \/ run_after_extract(p)
          \/ run_after_save(p)

Next == RunNext \/ FetchNext \/ LoadNext

\* one pipeline run from the task callable to its end
Spec == Init /\ [][Next]_vars

\* one direct call of save_to_snowflake
LoadSpec == LoadInit /\ [][LoadNext]_vars

\* a record as the Fetcher of p builds it for the i-th catalog entity
FetchedRecord(p, i) ==
    IF p = "github"
    THEN GitHubRecord(Catalog(p)[i], 0, "empty_array", 0)
    ELSE PyPIRecord(Catalog(p)[i], DownloadFields, 0)

\* the batches a run hands to save_to_snowflake when the fetches of the
\* first n catalog entities succeeded
FetchedBatches(p) ==
    { [ i \in 1..n |-> FetchedRecord(p, i) ] : n \in 1..Len(Catalog(p)) }

\* runs of one pipeline, one after the other, start with empty tables
RerunInit ==
    /\ \E p \in Pipelines :
         /\ pc = [q \in Pipelines |-> IF q = p THEN "save" ELSE "off"]
         /\ \E b \in FetchedBatches(p) :
              data = [q \in Pipelines |-> IF q = p THEN b ELSE << >>]
    /\ perm = NoRows
    /\ perm_before = NoRowsOf
    /\ InitRest

\* the scheduler starts the next run of the pipeline once the previous one
\* is over (max_active_runs=1): its load is handed a fresh batch
next_run(p) ==
    /\ pc[p] = "save_done"
    /\ invocations[p] < MaxRuns
    /\ \E b \in FetchedBatches(p) : data' = [data EXCEPT ![p] = b]
    /\ pc' = [pc EXCEPT ![p] = "save"]
    /\ UNCHANGED << github_token, fetchVars, clock, conn, cursor, temp,
                    insert_data, txn, perm, exc, calls, ret, perm_before,
                    invocations, autocommit, dagVars >>

\* the steps of successive loads of a pipeline
RerunNext == LoadNext \/ \E p \in Pipelines : next_run(p)

\* up to MaxRuns loads of one pipeline, one after the other
RerunSpec == RerunInit /\ [][RerunNext]_vars

\* the orchestrator runs the two extraction tasks side by side: each is
\* about to load the batch it extracted
ConcInit ==
    /\ pc = [p \in Pipelines |-> "save"]
    /\ data \in { d \in [Pipelines -> UNION { FetchedBatches(p) : p \in Pipelines }] :
                    \A p \in Pipelines : d[p] \in FetchedBatches(p) }
    /\ perm \in InitialTables
    /\ perm_before = [p \in Pipelines |-> Perm(p)]
    /\ InitRest

\* the loads of the two pipelines, their steps interleaved in any order
ConcSpec == ConcInit /\ [][LoadNext]_vars

(***************************************************************************)
(* Orchestrated pipeline: the DAG run after start_pipeline.                *)
(***************************************************************************)
\* the extraction loops of both tasks are over, the fetch of the first
\* catalog entity of pipeline p having returned a record (n[p] = 1) or not,
\* and the others having failed on a 404; no load has begun
DagInit ==
    /\ pc = [p \in Pipelines |-> "extracted"]
    /\ github_token = TRUE
    /\ \E n \in [Pipelines -> 0..1] :
         /\ extracted_data =
               [p \in Pipelines |-> [i \in 1..n[p] |-> FetchedRecord(p, i)]]
         /\ run_log =
               [p \in Pipelines |->
                  [i \in 1..Len(Catalog(p)) |->
                     [ entity |-> Catalog(p)[i],
                       first |-> IF i <= n[p] THEN 0 ELSE 404,
                       returned |-> i <= n[p] ]]]
         /\ fetch_result =
               [p \in Pipelines |->
                  IF n[p] = Len(Catalog(p)) THEN FetchedRecord(p, n[p])
                                            ELSE None]
    /\ idx = [p \in Pipelines |-> Len(Catalog(p)) + 1]
    /\ fetched = [p \in Pipelines |-> Catalog(p)]
    /\ primary_calls = [p \in Pipelines |-> 0]
    /\ cooled = [p \in Pipelines |-> 0]
    /\ primary_body = [p \in Pipelines |-> "unset"]
    /\ contributors_count = [p \in Pipelines |-> 0]
    /\ sleeps = [p \in Pipelines |-> [i \in 1..Len(Catalog(p)) |-> Pacing]]
    /\ http_log = [p \in Pipelines |-> << >>]
    /\ invocations = [p \in Pipelines |-> 0]
    /\ clock = 0
    /\ data = [p \in Pipelines |-> << >>]
    /\ conn = [p \in Pipelines |-> "none"]
    /\ cursor = [p \in Pipelines |-> "unbound"]
    /\ temp = [p \in Pipelines |-> [exists |-> FALSE, rows |-> << >>]]
    /\ insert_data = [p \in Pipelines |-> << >>]
    /\ txn = [p \in Pipelines |-> << >>]
    /\ exc = [p \in Pipelines |-> FALSE]
    /\ calls = [p \in Pipelines |-> << >>]
    /\ ret = [p \in Pipelines |-> << >>]
    /\ perm \in InitialTables
    /\ perm_before = [p \in Pipelines |-> Perm(p)]
    /\ autocommit \in BOOLEAN
    /\ task_state = [t \in DOMAIN DownstreamTasks |-> "none"]
    /\ counted = << >>

\* both extraction tasks succeeded
ExtractionSucceeded == \A p \in Pipelines : pc[p] = "task_ok"

\* an extraction task failed
ExtractionFailed == \E p \in Pipelines : pc[p] = "task_failed"

\* the i-th downstream task has an upstream task that did not succeed
UpstreamFailed(i) ==
    IF i = 1 THEN ExtractionFailed
    ELSE task_state[i - 1] \in {"failed", "upstream_failed"}

\* every task upstream of the i-th downstream task succeeded (the default
\* trigger rule, all_success)
UpstreamSucceeded(i) ==
    IF i = 1 THEN ExtractionSucceeded ELSE task_state[i - 1] = "success"

\* the scheduler starts a task whose upstream tasks all succeeded
dag_task_start(i) ==
    /\ task_state[i] = "none"
    /\ UpstreamSucceeded(i)
    /\ task_state' = [task_state EXCEPT ![i] = "running"]
    /\ UNCHANGED << pc, github_token, fetchVars, clock, loadVars, autocommit,
                    counted >>

\* the scheduler gives up a task with an upstream task that did not
\* succeed: it never runs
dag_task_upstream_failed(i) ==
    /\ task_state[i] = "none"
    /\ UpstreamFailed(i)
    /\ task_state' = [task_state EXCEPT ![i] = "upstream_failed"]
    /\ UNCHANGED << pc, github_token, fetchVars, clock, loadVars, autocommit,
                    counted >>

\* CURRENT_DATE() as validate_raw_data may see it: the day began before
\* the loads of this run (clock values below 1 are an earlier day), or
\* midnight passed after them
Midnights == {1, clock + 1}

\* SELECT COUNT(*) ... WHERE DATE(extracted_at) = CURRENT_DATE()
SameDayCount(rows, midnight) ==
    Cardinality({ i \in DOMAIN rows : rows[i].extracted_at >= midnight })

\* mutant: `and` in place of `or`
NoDataToday_Both(github_count, pypi_count) ==
    github_count = 0 /\ pypi_count = 0

\* `if github_count == 0 or pypi_count == 0`
NoDataToday(github_count, pypi_count) ==
    github_count = 0 \/ pypi_count = 0

\* the callable validate_raw_data: connect, the two counts, the test, and
\* the closes; ~ok when a warehouse call of it raises
validate_raw_data(ok) ==
    /\ task_state[1] = "running"
    /\ IF ok
       THEN \E midnight \in Midnights :
               /\ counted' = [p \in Pipelines |->
                                SameDayCount(Perm(p), midnight)]
               /\ task_state' = [task_state EXCEPT ![1] =
                     IF NoDataToday(counted'["github"], counted'["pypi"])
                     THEN "failed" ELSE "success"]
       ELSE /\ task_state' = [task_state EXCEPT ![1] = "failed"]
            /\ UNCHANGED counted
    /\ UNCHANGED << pc, github_token, fetchVars, clock, loadVars, autocommit >>

\* a dbt task (check_dbt_models, or a BashOperator) ends: it fails when a
\* command of it exits non-zero; end_pipeline is an EmptyOperator
dbt_task_end(i, ok) ==
    /\ i > 1
    /\ task_state[i] = "running"
    /\ i = Len(DownstreamTasks) => ok
    /\ task_state' = [task_state EXCEPT ![i] = IF ok THEN "success" ELSE "failed"]
    /\ UNCHANGED << pc, github_token, fetchVars, clock, loadVars, autocommit,
                    counted >>

\* the steps of the DAG run
DagNext ==
    \/ LoadNext
    \/ \E p \in Pipelines : run_after_extract(p) \/ run_after_save(p)
    \/ \E i \in DOMAIN DownstreamTasks :
          \/ dag_task_start(i)
          \/ dag_task_upstream_failed(i)
          \/ \E ok \in BOOLEAN : dbt_task_end(i, ok)
    \/ \E ok \in BOOLEAN : validate_raw_data(ok)

\* one DAG run from the end of the two extraction loops on
DagSpec == DagInit /\ [][DagNext]_vars

(***************************************************************************)
(* Vocabulary of the properties.                                           *)
(***************************************************************************)
\* the rows the permanent table of p gained since the load was entered
Gained(p) == SubSeq(Perm(p), Len(perm_before[p]) + 1, Len(Perm(p)))

\* the permanent table of p still starts with what it held before the load
KeepsOldRows(p) ==
    /\ Len(Perm(p)) >= Len(perm_before[p])
    /\ SubSeq(Perm(p), 1, Len(perm_before[p])) = perm_before[p]

\* warehouse call `op` was issued in the current load of p
Issued(p, op) == \E i \in DOMAIN calls[p] : calls[p][i].op = op

\* warehouse call `op` raised in the current load of p
Failed(p, op) ==
    \E i \in DOMAIN calls[p] : calls[p][i].op = op /\ ~calls[p][i].ok

\* some warehouse call raised in the current load of p
AnyFailed(p) == \E i \in DOMAIN calls[p] : ~calls[p][i].ok

\* the j-th smallest element of a set of positions
Nth(S, j) == CHOOSE i \in S : Cardinality({ m \in S : m < i }) = j - 1

\* positions of the records (non-empty mappings) of the batch handed to p
RecordPositions(p) == { i \in 1..Len(data[p]) : Truthy(data[p][i]) }

\* positions of the records that fail JSON serialisation or validation
FailingPositions(p) ==
    { i \in RecordPositions(p) : SerializationFails(data[p][i]) }

\* positions of the records that pass
ValidPositions(p) == RecordPositions(p) \ FailingPositions(p)

\* the entity names of the valid records, in batch order
ValidNames(p) ==
    [ j \in 1..Cardinality(ValidPositions(p)) |->
        data[p][Nth(ValidPositions(p), j)].name ]

\* the entity names of a sequence of rows
NamesOf(rows) == [ j \in 1..Len(rows) |-> rows[j].name ]

(***************************************************************************)
(* C1.  A Loader invocation is all-or-nothing on the permanent table: at   *)
(* every point of the invocation, and so after it, whatever call raised,   *)
(* the table holds what it held before, either alone or followed by        *)
(* exactly one row per surviving record of the batch (same entity, the     *)
(* parsed JSON of that record, batch order).  Never a part of them.        *)
(***************************************************************************)
C1_AtomicLoad ==
    \A p \in Pipelines :
       \/ Perm(p) = perm_before[p]
       \/ /\ KeepsOldRows(p)
          /\ Len(Gained(p)) = Len(Survivors(data[p]))
          /\ Len(Gained(p)) > 0
          /\ \A i \in 1..Len(Gained(p)) :
                /\ Gained(p)[i].name = KeyOf(p, Survivors(data[p])[i])
                /\ Gained(p)[i].raw_data =
                      loads_record(dumps_record(Survivors(data[p])[i]))

\* a load of two or more surviving records whose commit raised after the
\* promotion statement succeeded, and left the table as it was
C1_Witness ==
    \E p \in Pipelines :
       /\ pc[p] = "save_done"
       /\ exc[p]
       /\ Issued(p, "promote") /\ ~Failed(p, "promote")
       /\ Failed(p, "commit")
       /\ Len(Survivors(data[p])) >= 2
       /\ perm_before[p] # << >>
       /\ Perm(p) = perm_before[p]

(***************************************************************************)
(* C2.  The driver invokes the Fetcher once per catalog entity, in catalog *)
(* order, whatever fails: the entities fetched so far are always a prefix  *)
(* of the catalog as long as the loop index, and once the loop is over     *)
(* they are the whole catalog.                                             *)
(***************************************************************************)
C2_EveryEntityOnceInOrder ==
    \A p \in Pipelines :
       /\ Len(fetched[p]) <= Len(Catalog(p))
       /\ fetched[p] = SubSeq(Catalog(p), 1, Len(fetched[p]))
       /\ pc[p] \in {"primary", "cooldown", "retry", "secondary", "releases",
                     "pace"} => Len(fetched[p]) = idx[p]
       /\ pc[p] = "extracted" => fetched[p] = Catalog(p)
       /\ pc[p] \in {"task_ok", "task_failed"} /\ ~TokenMissing(p)
             => fetched[p] = Catalog(p)

\* the loop is over, the first fetch failed and the second one succeeded
C2_Witness ==
    \E p \in Pipelines :
       /\ pc[p] = "extracted"
       /\ fetched[p] = Catalog(p)
       /\ Len(extracted_data[p]) = 1
       /\ extracted_data[p][1].name = Catalog(p)[2]

(***************************************************************************)
(* C3.  Every Loader invocation that acquired a connection has called      *)
(* close on it when the invocation ends, on every exit path.               *)
(***************************************************************************)
C3_ConnectionReleased ==
    \A p \in Pipelines : pc[p] = "save_done" => conn[p] # "open"

(***************************************************************************)
(* Vocabulary of the Fetcher properties.                                   *)
(***************************************************************************)
\* a Fetcher invocation of p is under way
InFetch(p) == pc[p] \in {"primary", "cooldown", "retry", "secondary", "releases"}

\* the primary calls of the current fetch of p, in order
PrimaryLog(p) == SelectSeq(http_log[p], LAMBDA e : e.call = "primary")

\* the secondary (enrichment) calls of the current fetch of p, in order
SecondaryLog(p) == SelectSeq(http_log[p], LAMBDA e : e.call # "primary")

\* a 2xx status
Is2xx(status) == status >= 200 /\ status < 300

\* the call returned a response with status 403
Is403(e) == ~e.resp.exc /\ e.resp.status = 403

\* the call answered 200 with a body whose shape makes the code that reads
\* it raise: no mapping where .get is called, no len(), no element 0
UnexpectedShape(e) ==
    /\ ~e.resp.exc /\ e.resp.status = 200 /\ e.resp.body # "malformed"
    /\ \/ e.call \in {"primary", "stats"} /\ e.resp.body # "object"
       \/ e.call = "contributors" /\ e.resp.body = "number"
       \/ e.call = "releases" /\ e.resp.body \in {"number", "object"}

\* the call answered 200 with a body that is not JSON
Unparsable(e) == ~e.resp.exc /\ e.resp.status = 200 /\ e.resp.body = "malformed"

\* the last primary call of the current fetch of p answered 200 with a
\* JSON object
PrimarySucceeded(p) ==
    /\ PrimaryLog(p) # << >>
    /\ LET e == PrimaryLog(p)[Len(PrimaryLog(p))]
       IN  ~e.resp.exc /\ e.resp.status = 200 /\ e.resp.body = "object"

\* a failure of the current fetch of p: a network error on any call, a
\* non-2xx status of the last primary call, a malformed body, an
\* unexpected shape
FetchFailure(p) ==
    \/ \E i \in DOMAIN http_log[p] :
          \/ http_log[p][i].resp.exc
          \/ Unparsable(http_log[p][i])
          \/ UnexpectedShape(http_log[p][i])
    \/ /\ PrimaryLog(p) # << >>
       /\ LET e == PrimaryLog(p)[Len(PrimaryLog(p))]
          IN  ~e.resp.exc /\ ~Is2xx(e.resp.status)

(***************************************************************************)
(* C4.  The Fetcher never raises to the driver: a step of a fetch leads to *)
(* another step of that fetch or to the driver's pacing step, never out of *)
(* the loop; when the fetch met a failure, what it returned is None; and   *)
(* the driver then goes on to the next entity (or ends the loop after the  *)
(* last one).                                                              *)
(***************************************************************************)
C4_FetcherNeverRaises ==
    /\ [](\A p \in Pipelines :
            pc[p] = "pace" /\ FetchFailure(p) => fetch_result[p] = None)
    /\ [][\A p \in Pipelines :
            /\ InFetch(p) => (InFetch(p))' \/ pc'[p] = "pace"
            /\ pc[p] = "pace" /\ pc'[p] # "pace" =>
                 /\ idx'[p] = idx[p] + 1
                 /\ IF idx[p] < Len(Catalog(p))
                    THEN pc'[p] = "primary" /\ Len(fetched'[p]) = idx'[p]
                    ELSE pc'[p] = "extracted"]_vars

\* a secondary call raised a network error after the primary call had
\* succeeded, and the Fetcher returned None to the driver
C4_Witness ==
    \E p \in Pipelines :
       /\ pc[p] = "pace"
       /\ PrimarySucceeded(p)
       /\ \E i \in DOMAIN SecondaryLog(p) : SecondaryLog(p)[i].resp.exc
       /\ fetch_result[p] = None

(***************************************************************************)
(* C5.  GitHub Fetcher: at most two primary calls and one cooldown per     *)
(* entity.  A first response 403 is followed by exactly one cooldown and   *)
(* one more primary call; any other first response by neither.  A non-2xx  *)
(* status on the retried call ends the fetch with None, with no further    *)
(* call.                                                                   *)
(***************************************************************************)
C5_BoundedRetry ==
    LET P == PrimaryLog("github")
    IN  /\ primary_calls["github"] = Len(P)
        /\ Len(P) <= 2
        /\ cooled["github"] <= 1
        /\ pc["github"] \in {"secondary", "releases", "pace"} =>
              /\ Len(P) >= 1
              /\ Is403(P[1]) => cooled["github"] = 1 /\ Len(P) = 2
              /\ ~Is403(P[1]) => cooled["github"] = 0 /\ Len(P) = 1
              /\ Len(P) = 2 /\ ~P[2].resp.exc /\ ~Is2xx(P[2].resp.status) =>
                    /\ pc["github"] = "pace"
                    /\ fetch_result["github"] = None
                    /\ Len(http_log["github"]) = 2

\* the first primary call and the retried one both answered 403
C5_Witness ==
    LET P == PrimaryLog("github")
    IN  /\ pc["github"] = "pace"
        /\ Len(P) = 2
        /\ Is403(P[1]) /\ Is403(P[2])
        /\ cooled["github"] = 1
        /\ fetch_result["github"] = None

(***************************************************************************)
(* C6.  What a secondary call leaves in the record when it did not get a   *)
(* usable answer: its default.                                             *)
(***************************************************************************)
\* record r carries the default of the enrichment call e
HasDefault(e, r) ==
    CASE e.call = "contributors" -> r.contributors_count = 0
      [] e.call = "releases" ->
           r.releases_count = 0 /\ r.latest_release = "None"
      [] e.call = "stats" -> r.fields \cap DownloadFields = {}

\* a secondary call failed: non-200 status, network exception, or a body
\* that does not parse
SecondaryFailed(e) == e.resp.exc \/ e.resp.status # 200 \/ Unparsable(e)

\* C6 as stated: once the primary call has succeeded, a failure of any
\* secondary call, of whatever kind, never aborts the entity: the Fetcher
\* returns a record with that enrichment at its default.
C6_Original ==
    \A p \in Pipelines :
       pc[p] = "pace" /\ PrimarySucceeded(p) =>
          \A i \in DOMAIN SecondaryLog(p) :
             SecondaryFailed(SecondaryLog(p)[i]) =>
                /\ Truthy(fetch_result[p])
                /\ HasDefault(SecondaryLog(p)[i], fetch_result[p])

\* C6 amended: once the primary call has succeeded, a secondary call that
\* answers with a non-200 status never aborts the entity: when no call of
\* the fetch raises, the Fetcher returns a record, with the enrichment of
\* every non-200 secondary call at its default.  A secondary call that
\* raises a network exception or answers 200 with an unparsable body makes
\* the Fetcher return None.
C6_NonOkStatusDegrades ==
    \A p \in Pipelines :
       pc[p] = "pace" /\ PrimarySucceeded(p) =>
          LET S == SecondaryLog(p)
          IN  /\ (\A i \in DOMAIN S :
                     ~S[i].resp.exc /\ ~Unparsable(S[i]) /\ ~UnexpectedShape(S[i]))
                 => /\ Truthy(fetch_result[p])
                    /\ \A i \in DOMAIN S :
                          S[i].resp.status # 200 => HasDefault(S[i], fetch_result[p])
              /\ (\E i \in DOMAIN S : S[i].resp.exc \/ Unparsable(S[i]))
                 => fetch_result[p] = None

\* both GitHub enrichment calls answered an error status and the Fetcher
\* returned a record with zero contributors and no release
C6_Witness ==
    /\ pc["github"] = "pace"
    /\ PrimarySucceeded("github")
    /\ Len(SecondaryLog("github")) = 2
    /\ \A i \in 1..2 : /\ ~SecondaryLog("github")[i].resp.exc
                       /\ SecondaryLog("github")[i].resp.status # 200
    /\ Truthy(fetch_result["github"])
    /\ fetch_result["github"].contributors_count = 0
    /\ fetch_result["github"].releases_count = 0

(***************************************************************************)
(* C7.  Every record a Fetcher returns has all the declared field keys of  *)
(* its source, whatever the upstream responses were.                       *)
(***************************************************************************)
\* the declared field set of a source
DeclaredFields(p) ==
    IF p = "github" THEN GitHubFields ELSE PyPIBaseFields \cup DownloadFields

C7_StableShape ==
    \A p \in Pipelines :
       pc[p] = "pace" /\ Truthy(fetch_result[p]) =>
          fetch_result[p].fields = DeclaredFields(p)

C9_DropsExactlyFailing ==
    \A p \in Pipelines :
       /\ pc[p] \in {"executemany", "promote", "commit"} =>
             NamesOf(insert_data[p]) = ValidNames(p)
       /\ pc[p] = "save_done" /\ data[p] # << >> /\ ~AnyFailed(p) =>
             /\ ~exc[p]
             /\ NamesOf(insert_data[p]) = ValidNames(p)
             /\ KeepsOldRows(p)
             /\ NamesOf(Gained(p)) = ValidNames(p)
             /\ Len(Gained(p)) =
                  Cardinality(RecordPositions(p)) - Cardinality(FailingPositions(p))
             /\ ValidPositions(p) # {} =>
                  /\ NamesOf(temp[p].rows) = ValidNames(p)
                  /\ Issued(p, "commit")
       /\ ValidPositions(p) = {} =>
             /\ ~Issued(p, "executemany")
             /\ ~Issued(p, "promote")
             /\ ~Issued(p, "commit")
             /\ Perm(p) = perm_before[p]

\* a batch of three records, one of which fails serialisation, has been
\* loaded without a warehouse error: two rows were promoted
C9_Witness ==
    \E p \in Pipelines :
       /\ pc[p] = "save_done"
       /\ ~AnyFailed(p)
       /\ Cardinality(RecordPositions(p)) = 3
       /\ Cardinality(FailingPositions(p)) = 1
       /\ Len(Gained(p)) = 2

(***************************************************************************)
(* C10.  An error of the load is never swallowed: when a warehouse call of *)
(* the load raised, save_to_snowflake ends raising, and the task does not  *)
(* end as a success.                                                       *)
(***************************************************************************)
C10_LoadErrorPropagates ==
    \A p \in Pipelines :
       /\ pc[p] = "save_done" /\ AnyFailed(p) => exc[p]
       /\ pc[p] = "task_ok" => ~AnyFailed(p)

\* the task failed after the commit of its load raised
C10_Witness ==
    \E p \in Pipelines :
       /\ pc[p] = "task_failed"
       /\ Failed(p, "commit")


(***************************************************************************)
(* Vocabulary of the run properties.                                       *)
(***************************************************************************)
\* the run of p is past its token check
PastTokenCheck(p) == pc[p] \notin {"off", "task", "run"}

\* the extraction loop of the run of p is over
ExtractionOver(p) ==
    pc[p] \notin {"off", "task", "run", "primary", "cooldown", "retry",
                  "secondary", "releases", "pace"}

(***************************************************************************)
(* C11.  In the GitHub pipeline, a run whose token is absent ends by       *)
(* raising right after the token check: it has issued no HTTP request,     *)
(* fetched no entity, slept never, entered no load, made no warehouse call *)
(* and opened no connection, and the permanent table is as it was.         *)
(***************************************************************************)
C11_TokenAbsentFailsFast ==
    PastTokenCheck("github") /\ ~github_token
       => /\ pc["github"] = "task_failed"
          /\ fetched["github"] = << >>
          /\ http_log["github"] = << >>
          /\ run_log["github"] = << >>
          /\ sleeps["github"] = << >>
          /\ invocations["github"] = 0
          /\ calls["github"] = << >>
          /\ conn["github"] = "none"
          /\ Perm("github") = << >>

\* the GitHub task failed on the absent token
C11_Witness ==
    /\ pc["github"] = "task_failed"
    /\ ~github_token
    /\ fetched["github"] = << >>

(***************************************************************************)
(* C12.  As claimed: whenever the run returns normally, every catalog      *)
(* entity was fetched into a record and committed to the permanent table.  *)
(***************************************************************************)
C12_Original ==
    \A p \in Pipelines :
       pc[p] = "task_ok"
          => /\ NamesOf(extracted_data[p]) = Catalog(p)
             /\ NamesOf(Gained(p)) = Catalog(p)

(***************************************************************************)
(* C12, amended.  Whenever the run returns normally, no warehouse call     *)
(* raised and the permanent table gained exactly one row per record of the *)
(* batch, which holds the entities whose fetch succeeded and may be a part *)
(* of the catalog or empty (then no load took place).  The run raises only *)
(* when the GitHub token is absent or a warehouse call of the load raised. *)
(***************************************************************************)
C12_SuccessMeansBatchCommitted ==
    \A p \in Pipelines :
       /\ pc[p] = "task_ok"
             => /\ ~AnyFailed(p)
                /\ NamesOf(Gained(p)) = NamesOf(extracted_data[p])
                /\ extracted_data[p] # << >>
                      => /\ invocations[p] = 1
                         /\ Issued(p, "commit")
                /\ extracted_data[p] = << >> => invocations[p] = 0
       /\ pc[p] = "task_failed"
             => \/ p = "github" /\ ~github_token
                \/ AnyFailed(p)

\* a run returned normally after one of two fetches failed: the table
\* gained the one record of the batch
C12_Witness ==
    \E p \in Pipelines :
       /\ pc[p] = "task_ok"
       /\ fetched[p] = Catalog(p)
       /\ Len(extracted_data[p]) = 1
       /\ Len(Catalog(p)) > 1
       /\ Len(Gained(p)) = 1

(***************************************************************************)
(* C13.  When every fetch of a run failed, the run is over without a       *)
(* Loader invocation: no call of save_to_snowflake, no warehouse call, no  *)
(* connection, the permanent table untouched, and the run returns normally.*)
(***************************************************************************)
C13_EmptyBatchSkipsLoad ==
    \A p \in Pipelines :
       /\ ExtractionOver(p)
       /\ p = "github" => github_token
       /\ extracted_data[p] = << >>
       => /\ pc[p] \in {"extracted", "task_ok"}
          /\ fetched[p] = Catalog(p)
          /\ invocations[p] = 0
          /\ calls[p] = << >>
          /\ conn[p] = "none"
          /\ Perm(p) = << >>

\* a run returned normally after every fetch of the catalog failed
C13_Witness ==
    \E p \in Pipelines :
       /\ pc[p] = "task_ok"
       /\ fetched[p] = Catalog(p)
       /\ \A i \in DOMAIN run_log[p] : ~run_log[p][i].returned
       /\ Len(run_log[p]) = Len(Catalog(p))
       /\ extracted_data[p] = << >>
       /\ invocations[p] = 0


(***************************************************************************)
(* Vocabulary of the properties of successive and concurrent loads.        *)
(***************************************************************************)
\* sequence a is the beginning of sequence b
IsPrefix(a, b) == Len(a) <= Len(b) /\ SubSeq(b, 1, Len(a)) = a

\* the connection of the current load of p committed
Committed(p) == Issued(p, "commit") /\ ~Failed(p, "commit")

\* the rows of a table carry pairwise distinct extracted_at values
DistinctStamps(rows) ==
    \A i, j \in DOMAIN rows :
       i # j => rows[i].extracted_at # rows[j].extracted_at

(***************************************************************************)
(* C14.  The permanent tables are append-only over successive runs: every  *)
(* step of a load leaves each table's rows in place and at most adds rows  *)
(* after them; a load that committed has added one row per surviving       *)
(* record after the rows of the earlier runs; and all rows of a table      *)
(* carry distinct extracted_at values.  So two committed runs leave two    *)
(* rows per entity.                                                        *)
(***************************************************************************)
C14_AppendOnly ==
    /\ [][\A t \in Tables : IsPrefix(perm[t], perm'[t])]_vars
    /\ [](\A p \in Pipelines :
            /\ DistinctStamps(Perm(p))
            /\ pc[p] = "save_done" /\ Committed(p)
                  => /\ KeepsOldRows(p)
                     /\ NamesOf(Gained(p)) = ValidNames(p))

\* the second run of a pipeline committed after the first one had, both
\* over the whole catalog: the table holds every entity twice, under two
\* extracted_at values
C14_Witness ==
    \E p \in Pipelines :
       /\ pc[p] = "save_done"
       /\ invocations[p] = 2
       /\ Committed(p)
       /\ Len(data[p]) = Len(Catalog(p))
       /\ Len(Perm(p)) = 2 * Len(Catalog(p))
       /\ \A i \in 1..Len(Catalog(p)) :
             /\ Perm(p)[i].name = Catalog(p)[i]
             /\ Perm(p)[Len(Catalog(p)) + i].name = Catalog(p)[i]
             /\ Perm(p)[i].extracted_at
                   # Perm(p)[Len(Catalog(p)) + i].extracted_at


\* rows without their extracted_at
Unstamped(rows) ==
    [ i \in DOMAIN rows |->
        [ name |-> rows[i].name, raw_data |-> rows[i].raw_data ] ]

\* the rows the load of p adds when it runs alone, by what its own
\* warehouse calls did: all rows of its batch once they are committed (at
\* the promotion statement under AUTOCOMMIT), none otherwise
RowsWhenAlone(p) ==
    IF \/ Committed(p)
       \/ autocommit /\ Issued(p, "promote") /\ ~Failed(p, "promote")
    THEN Unstamped(PromotedRows(StagedRows(p, data[p], 0)))
    ELSE << >>

\* the part of the state that belongs to the session and the load of p
OwnState(p) ==
    << conn[p], cursor[p], temp[p], insert_data[p], txn[p], exc[p], calls[p],
       ret[p], data[p], perm_before[p], invocations[p] >>

(***************************************************************************)
(* C15.  With the loads of the two pipelines interleaved in any order: a   *)
(* step of one pipeline changes neither the other's permanent table nor    *)
(* the other's connection, cursor, temporary table, transaction or any     *)
(* other state of its load; at every point each permanent table holds,     *)
(* extracted_at aside, its rows from before followed by exactly the rows   *)
(* its own pipeline adds when run alone with the same call outcomes.       *)
(***************************************************************************)
C15_PipelinesIndependent ==
    /\ [][\A p \in Pipelines :
            pc'[p] = pc[p]
               => /\ perm'[PermanentTable(p)] = perm[PermanentTable(p)]
                  /\ OwnState(p)' = OwnState(p)]_vars
    /\ [](\A p \in Pipelines :
            pc[p] # "save"
                  => /\ KeepsOldRows(p)
                     /\ perm_before[p] \in {<< >>, << OldRow(p) >>}
                     /\ Unstamped(Gained(p)) = RowsWhenAlone(p))

\* both loads are over: the GitHub one committed its rows after the PyPI
\* one had staged its own, then the PyPI one failed at its promotion and
\* rolled back
C15_Witness ==
    /\ pc["github"] = "save_done" /\ pc["pypi"] = "save_done"
    /\ Committed("github")
    /\ Len(Gained("github")) = Len(Catalog("github"))
    /\ Failed("pypi", "promote")
    /\ Issued("pypi", "rollback")
    /\ Gained("pypi") = << >>
    /\ perm_before["pypi"] # << >>
    /\ insert_data["pypi"] # << >>
    /\ insert_data["pypi"][1].extracted_at
          < insert_data["github"][1].extracted_at


LoopDone(p) ==
    /\ Issued(p, "create_temp") /\ ~Failed(p, "create_temp")
    /\ pc[p] # "serialize"

\* the positions in the batch of the records staged row `row` may come
\* from: the records of its entity
SourcesOf(p, row) == { j \in RecordPositions(p) : data[p][j].name = row.name }

(***************************************************************************)
(* C17.  As claimed: every staged row comes from a record that the parse   *)
(* of its serialised text gives back unchanged.                            *)
(***************************************************************************)
C17_Original ==
    \A p \in Pipelines :
       \A i \in DOMAIN insert_data[p] :
          \A j \in SourcesOf(p, insert_data[p][i]) :
             loads_record(insert_data[p][i].raw_data) = data[p][j]

(***************************************************************************)
(* C17, amended.  A record is staged exactly if json.dumps of it succeeds  *)
(* and json.loads of the text succeeds: the staged text is the record's    *)
(* serialisation and parses as JSON.  The parsed value is not compared     *)
(* with the record: a record of JSON-native values comes back equal, a     *)
(* record the serialisation changes (a tuple comes back as a list) is      *)
(* staged all the same.                                                    *)
(***************************************************************************)
C17_StagedIffWellFormed ==
    \A p \in Pipelines :
       /\ \A i \in DOMAIN insert_data[p] :
             /\ SourcesOf(p, insert_data[p][i]) # {}
             /\ \A j \in SourcesOf(p, insert_data[p][i]) :
                   /\ json_dumps(data[p][j].val) \notin {"TypeError", "ValueError"}
                   /\ insert_data[p][i].raw_data = dumps_record(data[p][j])
                   /\ json_loads(insert_data[p][i].raw_data.val) # "ValueError"
                   /\ data[p][j].val = "list"
                         => loads_record(insert_data[p][i].raw_data) = data[p][j]
       /\ LoopDone(p)
             => \A j \in RecordPositions(p) :
                   /\ json_dumps(data[p][j].val) \notin {"TypeError", "ValueError"}
                   /\ json_loads(json_dumps(data[p][j].val)) # "ValueError"
                   => \E i \in DOMAIN insert_data[p] :
                         j \in SourcesOf(p, insert_data[p][i])

\* a committed load staged a record holding a tuple, whose text parses to
\* a list, next to a record it dropped
C17_Witness ==
    \E p \in Pipelines :
       /\ pc[p] = "save_done"
       /\ Committed(p)
       /\ \E i \in DOMAIN insert_data[p] :
             \E j \in SourcesOf(p, insert_data[p][i]) :
                /\ data[p][j].val = "tuple"
                /\ loads_record(insert_data[p][i].raw_data) # data[p][j]
       /\ FailingPositions(p) # {}


(***************************************************************************)
(* Vocabulary of the backoff properties.                                   *)
(***************************************************************************)
\* the primary calls of the current fetch of p are over
PrimaryOver(p) == pc[p] \in {"secondary", "releases", "pace"}

\* number of cooldown sleeps among the sleeps of the run of p
Cooldowns(p) ==
    Cardinality({ i \in DOMAIN sleeps[p] : sleeps[p][i] = Cooldown })

TryOps ==
    << "connect", "cursor", "use_schema", "create_temp", "executemany",
       "promote", "commit" >>

\* the calls of the current load of p that the try block issued, in order
TryCalls(p) ==
    SelectSeq(calls[p],
              LAMBDA c : c.op \notin {"rollback", "cursor_close", "conn_close"})

\* how many times the current load of p issued call `op`
Count(p, op) == Cardinality({ i \in DOMAIN calls[p] : calls[p][i].op = op })

\* the try block issued its calls in program order, each after the
\* previous one returned
InProgramOrder(p) ==
    \A i \in DOMAIN TryCalls(p) :
       /\ i <= Len(TryOps)
       /\ TryCalls(p)[i].op = TryOps[i]
       /\ i < Len(TryCalls(p)) => TryCalls(p)[i].ok

\* every rollback of the current load of p precedes every close
RollbackBeforeClose(p) ==
    \A i, j \in DOMAIN calls[p] :
       /\ calls[p][i].op = "rollback"
       /\ calls[p][j].op \in {"cursor_close", "conn_close"}
       => i < j

\* a call on the connection or the cursor raised, whichever it was
FailedAfterConnect(p) ==
    \E i \in DOMAIN calls[p] : ~calls[p][i].ok /\ calls[p][i].op # "connect"

\* a call of the try block issued on the acquired connection raised
FailedInTry(p) ==
    \E i \in DOMAIN TryCalls(p) :
       ~TryCalls(p)[i].ok /\ TryCalls(p)[i].op # "connect"

(***************************************************************************)
(* C19.  As claimed: the calls come in program order, commit at most once  *)
(* and only after the promotion returned; and a load in which any call     *)
(* after the connection was acquired raised has called rollback exactly    *)
(* once, before the closes, and has never called commit.                   *)
(***************************************************************************)
C19_Original ==
    \A p \in Pipelines :
       /\ InProgramOrder(p)
       /\ Count(p, "commit") <= 1
       /\ Issued(p, "commit") => Issued(p, "promote") /\ ~Failed(p, "promote")
       /\ pc[p] = "save_done" /\ FailedAfterConnect(p)
             => /\ Count(p, "rollback") = 1
                /\ RollbackBeforeClose(p)
                /\ ~Issued(p, "commit")

(***************************************************************************)
(* C19, amended.  The calls come in program order, commit at most once and *)
(* only after the promotion returned.  When a call of the try block on the *)
(* acquired connection raised (cursor creation up to commit itself), the   *)
(* load has called rollback exactly once, before the closes, and no commit *)
(* of it succeeded: commit was called only if it is the call that raised.  *)
(* Otherwise rollback is never called: not when connect raised, and not    *)
(* when cursor.close() or conn.close() raised after a commit.              *)
(***************************************************************************)
C19_OrderedCommitOrRollback ==
    \A p \in Pipelines :
       /\ InProgramOrder(p)
       /\ Count(p, "commit") <= 1
       /\ Issued(p, "commit") => Issued(p, "promote") /\ ~Failed(p, "promote")
       /\ RollbackBeforeClose(p)
       /\ pc[p] \in {"finally", "finally_conn", "save_done"} /\ FailedInTry(p)
             => /\ Count(p, "rollback") = 1
                /\ ~Committed(p)
                /\ Issued(p, "commit") => Failed(p, "commit")
       /\ ~FailedInTry(p) => Count(p, "rollback") = 0

\* the commit of a load raised: one rollback, then the two closes
C19_Witness ==
    \E p \in Pipelines :
       /\ pc[p] = "save_done"
       /\ Failed(p, "commit")
       /\ Count(p, "rollback") = 1
       /\ Count(p, "cursor_close") = 1
       /\ Count(p, "conn_close") = 1
       /\ calls[p][Len(calls[p]) - 2].op = "rollback"


(***************************************************************************)
(* Vocabulary of the pacing properties.                                    *)
(***************************************************************************)
\* the sleeps of a run whose entities went as `log` tells: per entity the
\* cooldown, when the pipeline backs off and the first primary response
\* was 403, then the pacing delay
RECURSIVE ExpectedSleeps(_, _)
ExpectedSleeps(log, backsOff) ==
    IF log = << >> THEN << >>
    ELSE ExpectedSleeps(SubSeq(log, 1, Len(log) - 1), backsOff)
         \o (IF backsOff /\ log[Len(log)].first = 403
             THEN << Cooldown >> ELSE << >>)
         \o << Pacing >>

\* the entities of the run of p whose fetch returned a record, in order
ReturnedNames(p) ==
    [ i \in DOMAIN SelectSeq(run_log[p], LAMBDA e : e.returned)
        |-> SelectSeq(run_log[p], LAMBDA e : e.returned)[i].entity ]

\* the names under which the entities are logged
LoggedNames(p) == [ i \in DOMAIN run_log[p] |-> run_log[p][i].entity ]

\* how many pacing delays the run of p has slept
Pacings(p) ==
    Cardinality({ i \in DOMAIN sleeps[p] : sleeps[p][i] = Pacing })

PositionOf(p, name) ==
    IF \E j \in DOMAIN Catalog(p) : Catalog(p)[j] = name
    THEN CHOOSE j \in DOMAIN Catalog(p) : Catalog(p)[j] = name
    ELSE 0

\* the names are names of catalog entities, each at most once, in the
\* order in which the catalog lists them
InCatalogOrder(p, names) ==
    /\ \A i \in DOMAIN names : PositionOf(p, names[i]) > 0
    /\ \A i, j \in DOMAIN names :
          i < j => PositionOf(p, names[i]) < PositionOf(p, names[j])

(***************************************************************************)
(* C21.  At every point of a run the batch is an order-preserving          *)
(* subsequence of the catalog: it holds no absent (None) element, every    *)
(* record carries under its key field the catalog identifier it was        *)
(* fetched for, and its records are, in order, those of the entities       *)
(* whose fetch returned a record, one each.                                *)
(***************************************************************************)
C21_BatchIsSubsequence ==
    \A p \in Pipelines :
       /\ \A i \in DOMAIN extracted_data[p] :
             /\ extracted_data[p][i] # None
             /\ Truthy(extracted_data[p][i])
             /\ NameField(p) \in extracted_data[p][i].fields
       /\ InCatalogOrder(p, NamesOf(extracted_data[p]))
       /\ NamesOf(extracted_data[p]) = ReturnedNames(p)
       /\ Len(extracted_data[p]) <= Len(fetched[p])
       /\ pc[p] = "pace" /\ Truthy(fetch_result[p])
             => KeyOf(p, fetch_result[p]) = Catalog(p)[idx[p]]

\* the loop is over and every fetch returned a record: the batch lists
\* the whole catalog in its order
C21_Witness ==
    \E p \in Pipelines :
       /\ pc[p] = "extracted"
       /\ Len(extracted_data[p]) = Len(Catalog(p))
       /\ Len(extracted_data[p]) >= 2
       /\ NamesOf(extracted_data[p]) = Catalog(p)
       /\ \A i \in DOMAIN run_log[p] : run_log[p][i].returned


(***************************************************************************)
(* C22.  The extracted_at of every staged row and of every row the load    *)
(* added to the permanent table is the extracted_at its record was given   *)
(* when the fetch of its entity completed.                                 *)
(***************************************************************************)
C22_ExtractedAtIsFetchTime ==
    \A p \in Pipelines :
       /\ \A i \in DOMAIN insert_data[p] :
             \A j \in SourcesOf(p, insert_data[p][i]) :
                insert_data[p][i].extracted_at = data[p][j].extracted_at
       /\ \A i \in DOMAIN Gained(p) :
             \A j \in SourcesOf(p, Gained(p)[i]) :
                Gained(p)[i].extracted_at = data[p][j].extracted_at


(***************************************************************************)
(* Vocabulary of the termination properties.                               *)
(***************************************************************************)
\* the run of p is over (or p does not run)
Done(p) == pc[p] \in {"off", "task_ok", "task_failed"}

\* the control points of a run in program order
ProgramOrder ==
    << "task", "run", "primary", "cooldown", "retry", "secondary", "releases",
       "pace", "extracted", "save", "connect", "cursor", "use_schema",
       "create_temp", "serialize", "executemany", "promote", "commit",
       "except", "finally", "finally_conn", "save_done" >>

\* the place of a control point in the program order
PlaceOf(at) == CHOOSE i \in DOMAIN ProgramOrder : ProgramOrder[i] = at

\* catalog entities the loop of p has not taken yet
EntitiesLeft(p) ==
    IF idx[p] >= Len(Catalog(p)) THEN 0 ELSE Len(Catalog(p)) - idx[p]

\* an upper bound of the steps the run of p can still take: a full pass of
\* the loop body for every entity not yet taken, and the rest of the
\* program after the current control point
StepsLeft(p) ==
    IF Done(p) THEN 0
    ELSE EntitiesLeft(p) * Len(ProgramOrder)
         + (Len(ProgramOrder) + 1 - PlaceOf(pc[p]))

\* the sum of StepsLeft over the pipelines
TotalStepsLeft == StepsLeft("github") + StepsLeft("pypi")

(***************************************************************************)
(* C23.  Every run terminates: each step of a run lowers a bound on the    *)
(* number of steps it can still take (so no retry or loop repeats without  *)
(* end: at most two primary calls per entity, one pass of the loop per     *)
(* entity), and a run that is not over always has a next step, whatever    *)
(* its calls return or raise.  So a run whose calls all come back ends,    *)
(* within that many steps, by returning normally or by raising.  A run     *)
(* that raised did so on the absent token or in its load, never in a       *)
(* fetch.                                                                  *)
(***************************************************************************)
C23_EveryRunTerminates ==
    /\ [][TotalStepsLeft' < TotalStepsLeft]_vars
    /\ [](\A p \in Pipelines :
            /\ TotalStepsLeft >= 0
            /\ ~Done(p) => ENABLED Next
            /\ primary_calls[p] <= 2
            /\ Len(fetched[p]) <= Len(Catalog(p))
            /\ pc[p] = "task_failed"
                  => \/ p = "github" /\ ~github_token
                     \/ invocations[p] = 1 /\ exc[p])

\* a run ended normally although a first primary call answered 403 and
\* the fetch of another entity failed without an HTTP error status (a
\* network error or an unusable body)
C23_Witness ==
    \E p \in Pipelines :
       /\ pc[p] = "task_ok"
       /\ Len(run_log[p]) = Len(Catalog(p))
       /\ \E i \in DOMAIN run_log[p] : run_log[p][i].first = 403
       /\ \E i \in DOMAIN run_log[p] :
             run_log[p][i].first = 0 /\ ~run_log[p][i].returned


\* C24: validate_raw_data starts only when both extraction tasks have
\* succeeded, whatever the order of their steps; once it has counted the
\* rows of today in the two permanent tables it fails whenever one of the
\* counts is zero, and succeeds only with both counts positive; after it
\* failed (or was not run because an extraction task failed) no task
\* downstream of it is ever started.
C24_ValidationGatesTransforms ==
    /\ task_state[1] \in {"running", "success", "failed"}
          => \A p \in Pipelines : pc[p] = "task_ok"
    /\ counted # << >>
          => /\ task_state[1] \in {"success", "failed"}
             /\ \E midnight \in Midnights :
                   counted = [p \in Pipelines |->
                                SameDayCount(Perm(p), midnight)]
             /\ (\E p \in Pipelines : counted[p] = 0)
                   => task_state[1] = "failed"
    /\ task_state[1] = "success"
          => /\ counted # << >>
             /\ \A p \in Pipelines : counted[p] > 0
    /\ task_state[1] \in {"failed", "upstream_failed"}
          => \A i \in DOMAIN DownstreamTasks :
                i > 1 => task_state[i] \in {"none", "upstream_failed"}

\* both extraction tasks succeeded, GitHub having loaded rows today and
\* PyPI none: the validation failed and check_dbt_models was not run
C24_Witness ==
    /\ \A p \in Pipelines : pc[p] = "task_ok"
    /\ task_state[1] = "failed"
    /\ counted # << >>
    /\ counted["github"] > 0
    /\ counted["pypi"] = 0
    /\ Len(Perm("pypi")) > 0
    /\ task_state[2] = "upstream_failed"

=============================================================================
